---------------------------- MODULE Spec2Model ----------------------------
(***************************************************************************)
(* Model of tools/provision-tenant.py: the tier table, the five manifest   *)
(* renderers, and the create / delete / list commands acting on the        *)
(* working directory's file tree.                                          *)
(*                                                                         *)
(* Text is a sequence of tokens.  A token is either one character of an    *)
(* input string ("a", ".", "/", "1", "Y", ...) or a literal chunk of the   *)
(* source that no input can spell ("replicas: ", "application-", a piece   *)
(* of a YAML template).  Concatenation of text is \o, so substring search, *)
(* prefix tests and path splitting are computed on the text itself.        *)
(*                                                                         *)
(* A path is a sequence of components, a component a non-empty sequence of *)
(* tokens.  The file tree is relative to the working directory, which is   *)
(* the empty path and always a directory.                                  *)
(***************************************************************************)
EXTENDS Integers, Sequences, FiniteSets, TLC

VARIABLES
    fs,          \* the file tree: [dirs: set of paths, files: path -> text]
    proc,        \* one record per process slot: position, arguments, locals of its invocation
    live,        \* history: names whose create completed and that no completed confirmed delete removed since
    plainOnly,   \* history: every invocation so far named a plain tenant (one visible path component)
    overlapped,  \* history: two invocations have been in flight at the same time
    launched     \* number of invocations started while another one was running

vars == <<fs, proc, live, plainOnly, overlapped, launched>>

---------------------------------------------------------------------------
(* Bounds *)

\* invocations per behaviour that are started while another one is running
MaxOverlaps == 1
\* largest replica count a deployment manifest found on disk may carry
MaxReplicas == 31

\* process slots: two invocations of the tool can be in flight together
Procs == {1, 2}

---------------------------------------------------------------------------
(* Text helpers *)

Range(s) == {s[i] : i \in 1..Len(s)}

\* Python: pattern in text
Contains(text, pattern) ==
    \E i \in 0..(Len(text) - Len(pattern)) :
        SubSeq(text, i + 1, i + Len(pattern)) = pattern

\* Python: str(n) for n >= 0
DigitOf(d) == CASE d = 0 -> "0" [] d = 1 -> "1" [] d = 2 -> "2" [] d = 3 -> "3"
                [] d = 4 -> "4" [] d = 5 -> "5" [] d = 6 -> "6" [] d = 7 -> "7"
                [] d = 8 -> "8" [] d = 9 -> "9"

RECURSIVE Str(_)
Str(n) == IF n < 10 THEN <<DigitOf(n)>> ELSE Str(n \div 10) \o <<DigitOf(n % 10)>>

\* Python: str.lower(), one character
LowerChar(c) == CASE c = "Y" -> "y" [] c = "E" -> "e" [] c = "S" -> "s"
                  [] c = "N" -> "n" [] c = "O" -> "o" [] OTHER -> c

\* Python: str.lower()
Lower(s) == [i \in 1..Len(s) |-> LowerChar(s[i])]

---------------------------------------------------------------------------
(* The tier table *)

TIERS ==
    [ small    |-> [replicas |-> 1, memory_request |-> "128Mi", memory_limit |-> "256Mi",
                    cpu_request |-> "100m", cpu_limit |-> "200m"],
      standard |-> [replicas |-> 2, memory_request |-> "256Mi", memory_limit |-> "512Mi",
                    cpu_request |-> "200m", cpu_limit |-> "400m"],
      large    |-> [replicas |-> 3, memory_request |-> "512Mi", memory_limit |-> "1Gi",
                    cpu_request |-> "500m", cpu_limit |-> "1000m"] ]

TierNames == DOMAIN TIERS

\* what --tier may be given on the command line: the three tiers and one that is not in the table
TierArgs == TierNames \cup {"huge"}

---------------------------------------------------------------------------
(* The manifest renderers *)

create_namespace_yaml(tenant_name) ==
    <<"---\napiVersion: v1\nkind: Namespace\nmetadata:\n  name: tenant-">>
    \o tenant_name \o <<"\n  labels:\n    tenant: ">> \o tenant_name \o <<"\n">>

\* the two template pieces around the replica count
SpecHead == "\nspec:\n  "
SelectorBlock == "\n  selector:\n    matchLabels:\n      app: web\n  template:\n    metadata:\n      labels:\n        app: web\n        tenant: "

\* the deployment text for a given profile (lines 45-77)
DeploymentText(tenant_name, config) ==
    <<"---\napiVersion: apps/v1\nkind: Deployment\nmetadata:\n  name: nginx-deployment\n  namespace: tenant-">>
    \o tenant_name \o <<"\n  labels:\n    app: web\n    tenant: ">> \o tenant_name
    \o <<SpecHead, "replicas: ">> \o Str(config.replicas) \o <<SelectorBlock>>
    \o tenant_name
    \o <<"\n    spec:\n      containers:\n      - name: nginx\n        image: nginx:1.21\n        ports:\n        - containerPort: 80\n        resources:\n          requests:\n            memory: \"">>
    \o <<config.memory_request, "\"\n            cpu: \"", config.cpu_request,
         "\"\n          limits:\n            memory: \"", config.memory_limit,
         "\"\n            cpu: \"", config.cpu_limit, "\"\n">>

create_deployment_yaml(tenant_name, tier) == DeploymentText(tenant_name, TIERS[tier])

create_service_yaml(tenant_name) ==
    <<"---\napiVersion: v1\nkind: Service\nmetadata:\n  name: nginx-service\n  namespace: tenant-">>
    \o tenant_name \o <<"\n  labels:\n    app: web\n    tenant: ">> \o tenant_name
    \o <<"\nspec:\n  type: ClusterIP\n  selector:\n    app: web\n  ports:\n  - port: 80\n    targetPort: 80\n    protocol: TCP\n">>

create_configmap_yaml(tenant_name) ==
    <<"---\napiVersion: v1\nkind: ConfigMap\nmetadata:\n  name: app-config\n  namespace: tenant-">>
    \o tenant_name \o <<"\n  labels:\n    tenant: ">> \o tenant_name
    \o <<"\ndata:\n  database_host: \"postgres.example.com\"\n  database_port: \"5432\"\n  app_mode: \"production\"\n  log_level: \"info\"\n">>

create_argocd_application_yaml(tenant_name) ==
    <<"---\napiVersion: argoproj.io/v1alpha1\nkind: Application\nmetadata:\n  name: ">>
    \o tenant_name \o <<"-tenant\n  namespace: argocd\n  labels:\n    tenant: ">> \o tenant_name
    \o <<"\n  finalizers:\n    - resources-finalizer.argocd.argoproj.io\nspec:\n  project: default\n  source:\n    repoURL: https://github.com/moahmed90/multi-tenant-platform\n    targetRevision: main\n    path: gitops/tenants/">>
    \o tenant_name
    \o <<"\n  destination:\n    server: https://kubernetes.default.svc\n    namespace: tenant-">>
    \o tenant_name
    \o <<"\n  syncPolicy:\n    automated:\n      prune: true\n      selfHeal: true\n    syncOptions:\n      - CreateNamespace=true\n  ignoreDifferences:\n    - group: apps\n      kind: Deployment\n      jsonPointers:\n        - /spec/replicas\n">>

---------------------------------------------------------------------------
(* Paths: pathlib.Path on POSIX *)

\* split a path string at every "/"
RECURSIVE SplitSlash(_)
SplitSlash(s) ==
    IF s = <<>> THEN << <<>> >>
    ELSE LET rest == SplitSlash(Tail(s))
         IN  IF Head(s) = "/" THEN << <<>> >> \o rest
             ELSE << <<Head(s)>> \o Head(rest) >> \o Tail(rest)

KeepPart(c) == c # <<>> /\ c # <<".">>

\* Path(s): the components of a relative path string; empty and "." components are dropped
Path(s) == SelectSeq(SplitSlash(s), KeepPart)

\* Path(f"gitops/tenants/{name}")
TenantDir(name) == Path(<<"gitops", "/", "tenants", "/">> \o name)

\* Path(f"gitops/argocd/application-{name}.yaml")
ArgocdFile(name) == Path(<<"gitops", "/", "argocd", "/", "application-">> \o name \o <<".yaml">>)

TenantsRoot == Path(<<"gitops", "/", "tenants">>)
ArgocdDir == Path(<<"gitops", "/", "argocd">>)

ManifestNames == {"namespace.yaml", "deployment.yaml", "service.yaml", "configmap.yaml"}

\* tenant_dir / "deployment.yaml"
Child(dir, file) == dir \o << <<file>> >>

Parent(path) == SubSeq(path, 1, Len(path) - 1)

IsPrefix(a, b) == Len(a) <= Len(b) /\ SubSeq(b, 1, Len(a)) = a

ProperPrefixes(path) == {SubSeq(path, 1, k) : k \in 1..(Len(path) - 1)}

---------------------------------------------------------------------------
(* The file tree and the system calls the program makes on it *)

EmptyFs == [dirs |-> {}, files |-> [q \in {} |-> <<>>]]

IsFile(f, path) == path \in DOMAIN f.files
IsDir(f, path) == path = <<>> \/ path \in f.dirs
\* Path.exists()
Exists(f, path) == IsDir(f, path) \/ IsFile(f, path)

Ok(f) == [fs |-> f, err |-> "none"]
Err(f, e) == [fs |-> f, err |-> e]

\* Path.mkdir(parents=True, exist_ok=True)
MkdirParents(f, path) ==
    IF \E a \in ProperPrefixes(path) : IsFile(f, a) THEN Err(f, "NotADirectoryError")
    ELSE IF IsFile(f, path) THEN Err(f, "FileExistsError")
    ELSE Ok([f EXCEPT !.dirs = @ \cup ProperPrefixes(path) \cup {path}])

\* a write that leaves an existing file as it is
WriteTextIfAbsent(f, path, text) ==
    IF IsFile(f, path) THEN Ok(f)
    ELSE Ok([f EXCEPT !.files = [q \in DOMAIN f.files \cup {path} |->
                                    IF q = path THEN text ELSE f.files[q]]])

\* Path.write_text(text): open for writing (create or truncate), write, close
WriteText(f, path, text) ==
    IF IsDir(f, path) THEN Err(f, "IsADirectoryError")
    ELSE IF \E a \in ProperPrefixes(path) : IsFile(f, a) THEN Err(f, "NotADirectoryError")
    ELSE IF ~IsDir(f, Parent(path)) THEN Err(f, "FileNotFoundError")
    ELSE Ok([f EXCEPT !.files = [q \in DOMAIN f.files \cup {path} |->
                                    IF q = path THEN text ELSE f.files[q]]])

\* a removal that unlinks the files under the directory and leaves the directories
RmtreeFilesOnly(f, path) ==
    IF ~Exists(f, path) THEN Err(f, "FileNotFoundError")
    ELSE IF IsFile(f, path) THEN Err(f, "NotADirectoryError")
    ELSE Ok([f EXCEPT !.files = [q \in {r \in DOMAIN f.files : ~IsPrefix(path, r)} |-> f.files[q]]])

\* shutil.rmtree(path): the directory and everything under it
Rmtree(f, path) ==
    IF ~Exists(f, path) THEN Err(f, "FileNotFoundError")
    ELSE IF IsFile(f, path) THEN Err(f, "NotADirectoryError")
    ELSE Ok([dirs  |-> {d \in f.dirs : ~IsPrefix(path, d)},
             files |-> [q \in {r \in DOMAIN f.files : ~IsPrefix(path, r)} |-> f.files[q]]])

\* Path.unlink()
Unlink(f, path) ==
    IF IsDir(f, path) THEN Err(f, "IsADirectoryError")
    ELSE IF ~IsFile(f, path) THEN Err(f, "FileNotFoundError")
    ELSE Ok([f EXCEPT !.files = [q \in DOMAIN f.files \ {path} |-> f.files[q]]])

\* Path.iterdir(): the entries directly under a directory
Entries(f, dir) == {p \in f.dirs \cup DOMAIN f.files : Len(p) = Len(dir) + 1 /\ IsPrefix(dir, p)}

---------------------------------------------------------------------------
(* Inputs *)

\* tenant names given with --name: plain ones, ".", a hidden one and a nested one.  None holds
\* a ".." component: pathlib keeps those for the operating system to resolve, which is not
\* modelled here.
PlainName == <<"a">>
OtherName == <<"b">>
DotName == <<".">>
HiddenName == <<".", "a">>
NestedName == <<"a", "/", "b">>
\* a plain name that spells the marker list looks for
MarkerName == <<"replicas: ", "1">>

Names == {PlainName, OtherName, DotName, HiddenName, NestedName}
ConcNames == {PlainName}
TierSpecNames == {PlainName, MarkerName}
ApiNames == {PlainName, HiddenName}
ListingNames == {PlainName, OtherName, HiddenName}

\* a name that is one visible directory name: not empty, no "/", no leading "."
IsPlain(n) == n # <<>> /\ "/" \notin Range(n) /\ Head(n) # "."

\* what the operator may type at the confirmation prompt
Yes == <<"y", "e", "s">>
ConfirmInputs == { Yes, <<"Y", "E", "S">>, <<"Y", "e", "s">>, <<"y">>,
                   <<" ", "y", "e", "s">>, <<"n", "o">>, <<>> }

---------------------------------------------------------------------------
(* Processes *)

Idle == [pc |-> "idle", command |-> "none", name |-> <<>>, tier |-> "none",
         prompted |-> FALSE, confirm |-> <<>>, pre |-> EmptyFs, result |-> "none",
         report |-> <<>>]

Finished(p) == proc[p].pc \in {"done", "failed"}
Running(p) == proc[p].pc \notin {"idle", "done", "failed"}
Quiescent == \A p \in Procs : ~Running(p)

Started(command, pc, name, tier) ==
    [Idle EXCEPT !.pc = pc, !.command = command, !.name = name, !.tier = tier, !.pre = fs]

Goto(p, pc) == [proc EXCEPT ![p].pc = pc]
Return(p, result) == [proc EXCEPT ![p].pc = "done", ![p].result = result]
Raise(p, error) == [proc EXCEPT ![p].pc = "failed", ![p].result = error]

\* one system call: move on when it succeeds, die with its exception when it fails
After(p, r, succ) ==
    /\ fs' = r.fs
    /\ proc' = IF r.err = "none" THEN succ ELSE Raise(p, r.err)

\* a new invocation takes the first free slot
FirstFree(p) == proc[p].pc = "idle" /\ \A q \in Procs : q < p => proc[q].pc # "idle"

---------------------------------------------------------------------------
(* main: argument parsing and dispatch *)

\* a parser that takes any --tier
TierAcceptedAny(t) == TRUE

\* create_parser.add_argument("--tier", choices=TIERS.keys(), ...)
TierAccepted(t) == t \in TierNames

Main(p, names) ==
    /\ FirstFree(p)
    /\ \/ \E n \in names, t \in TierArgs :
             \* create --name n --tier t; --tier is restricted to choices=TIERS.keys()
             /\ proc' = [proc EXCEPT ![p] =
                            IF TierAccepted(t)
                            THEN Started("create", "mkdir_tenant", n, t)
                            ELSE [Started("create", "failed", n, t) EXCEPT !.result = "usage"]]
             /\ plainOnly' = (plainOnly /\ IsPlain(n))
       \/ \E n \in names :
             /\ proc' = [proc EXCEPT ![p] = Started("delete", "check_exists", n, "none")]
             /\ plainOnly' = (plainOnly /\ IsPlain(n))
       \/ /\ proc' = [proc EXCEPT ![p] = Started("list", "list", <<>>, "none")]
          /\ UNCHANGED plainOnly
       \/ /\ proc' = [proc EXCEPT ![p] = [Started("help", "done", <<>>, "none") EXCEPT !.result = "help"]]
          /\ UNCHANGED plainOnly
    /\ overlapped' = (overlapped \/ \E q \in Procs : Running(q))
    /\ UNCHANGED <<fs, live>>

\* the process exits and its slot is free again
Exit(p) ==
    /\ Finished(p)
    /\ proc' = [proc EXCEPT ![p] = Idle]
    /\ UNCHANGED <<fs, live, plainOnly, overlapped, launched>>

---------------------------------------------------------------------------
(* create_tenant *)

\* the history variables
History == <<live, plainOnly, overlapped, launched>>

\* tenant_dir.mkdir(parents=True, exist_ok=True)
MkdirTenant(p) ==
    /\ proc[p].pc = "mkdir_tenant"
    /\ After(p, MkdirParents(fs, TenantDir(proc[p].name)), Goto(p, "write_namespace"))
    /\ UNCHANGED History

WriteNamespace(p) ==
    /\ proc[p].pc = "write_namespace"
    /\ After(p, WriteText(fs, Child(TenantDir(proc[p].name), "namespace.yaml"),
                          create_namespace_yaml(proc[p].name)),
             Goto(p, "write_deployment"))
    /\ UNCHANGED History

\* the deployment write of a create that keeps an existing deployment.yaml
WriteDeploymentKeep(p) ==
    /\ proc[p].pc = "write_deployment"
    /\ proc[p].tier \in TierNames
    /\ After(p, WriteTextIfAbsent(fs, Child(TenantDir(proc[p].name), "deployment.yaml"),
                                  create_deployment_yaml(proc[p].name, proc[p].tier)),
             Goto(p, "write_service"))
    /\ UNCHANGED History

\* create_deployment_yaml looks the tier up (config = TIERS[tier]) and only then is the text written
WriteDeployment(p) ==
    /\ proc[p].pc = "write_deployment"
    /\ IF proc[p].tier \notin TierNames
       THEN /\ proc' = Raise(p, "KeyError")
            /\ UNCHANGED fs
       ELSE After(p, WriteText(fs, Child(TenantDir(proc[p].name), "deployment.yaml"),
                               create_deployment_yaml(proc[p].name, proc[p].tier)),
                  Goto(p, "write_service"))
    /\ UNCHANGED History

WriteService(p) ==
    /\ proc[p].pc = "write_service"
    /\ After(p, WriteText(fs, Child(TenantDir(proc[p].name), "service.yaml"),
                          create_service_yaml(proc[p].name)),
             Goto(p, "write_configmap"))
    /\ UNCHANGED History

WriteConfigmap(p) ==
    /\ proc[p].pc = "write_configmap"
    /\ After(p, WriteText(fs, Child(TenantDir(proc[p].name), "configmap.yaml"),
                          create_configmap_yaml(proc[p].name)),
             Goto(p, "mkdir_argocd"))
    /\ UNCHANGED History

\* argocd_dir.mkdir(parents=True, exist_ok=True)
MkdirArgocd(p) ==
    /\ proc[p].pc = "mkdir_argocd"
    /\ After(p, MkdirParents(fs, ArgocdDir), Goto(p, "write_application"))
    /\ UNCHANGED History

\* (argocd_dir / f"application-{name}.yaml").write_text(...), then the summary is printed
WriteApplication(p) ==
    /\ proc[p].pc = "write_application"
    /\ LET r == WriteText(fs, ArgocdDir \o Path(<<"application-">> \o proc[p].name \o <<".yaml">>),
                          create_argocd_application_yaml(proc[p].name))
       IN  /\ After(p, r, Return(p, "created"))
           /\ live' = IF r.err = "none" THEN live \cup {proc[p].name} ELSE live
    /\ UNCHANGED <<plainOnly, overlapped, launched>>

---------------------------------------------------------------------------
(* delete_tenant *)

\* a check that also takes the application file for the tenant
CheckExistsEither(p) ==
    /\ proc[p].pc = "check_exists"
    /\ proc' = IF Exists(fs, TenantDir(proc[p].name)) \/ Exists(fs, ArgocdFile(proc[p].name))
               THEN Goto(p, "confirm") ELSE Return(p, "not_found")
    /\ UNCHANGED <<fs, live, plainOnly, overlapped, launched>>

\* if not tenant_dir.exists(): print not found; return
CheckExists(p) ==
    /\ proc[p].pc = "check_exists"
    /\ proc' = IF Exists(fs, TenantDir(proc[p].name))
               THEN Goto(p, "confirm") ELSE Return(p, "not_found")
    /\ UNCHANGED <<fs, live, plainOnly, overlapped, launched>>

\* the prompt with the answer compared as typed
AcceptsExact(confirm) == confirm = Yes

\* confirm.lower() != "yes" cancels
Accepts(confirm) == Lower(confirm) = Yes

\* confirm = input(...): the operator types a line
Confirm(p) ==
    /\ proc[p].pc = "confirm"
    /\ \E c \in ConfirmInputs :
          proc' = IF Accepts(c)
                  THEN [proc EXCEPT ![p].pc = "recheck_dir", ![p].prompted = TRUE,
                                    ![p].confirm = c]
                  ELSE [proc EXCEPT ![p].pc = "done", ![p].prompted = TRUE,
                                    ![p].confirm = c, ![p].result = "cancelled"]
    /\ UNCHANGED <<fs, live, plainOnly, overlapped, launched>>

\* input() on a closed or empty standard input raises EOFError
ConfirmEOF(p) ==
    /\ proc[p].pc = "confirm"
    /\ proc' = Raise(p, "EOFError")
    /\ UNCHANGED <<fs, live, plainOnly, overlapped, launched>>

\* if tenant_dir.exists():
RecheckDir(p) ==
    /\ proc[p].pc = "recheck_dir"
    /\ proc' = IF Exists(fs, TenantDir(proc[p].name))
               THEN Goto(p, "rmtree") ELSE Goto(p, "check_argocd")
    /\ UNCHANGED <<fs, live, plainOnly, overlapped, launched>>

\* shutil.rmtree(tenant_dir)
RemoveTree(p) ==
    /\ proc[p].pc = "rmtree"
    /\ After(p, Rmtree(fs, TenantDir(proc[p].name)), Goto(p, "check_argocd"))
    /\ UNCHANGED History

\* if argocd_file.exists(): ... else the next steps are printed and delete returns
CheckArgocd(p) ==
    /\ proc[p].pc = "check_argocd"
    /\ IF Exists(fs, ArgocdFile(proc[p].name))
       THEN /\ proc' = Goto(p, "unlink")
            /\ UNCHANGED live
       ELSE /\ proc' = Return(p, "deleted")
            /\ live' = live \ {proc[p].name}
    /\ UNCHANGED <<fs, plainOnly, overlapped, launched>>

\* a delete that returns without unlinking the application file
UnlinkArgocdSkipped(p) ==
    /\ proc[p].pc = "unlink"
    /\ proc' = Return(p, "deleted")
    /\ live' = live \ {proc[p].name}
    /\ UNCHANGED <<fs, plainOnly, overlapped, launched>>

\* argocd_file.unlink()
UnlinkArgocd(p) ==
    /\ proc[p].pc = "unlink"
    /\ LET r == Unlink(fs, ArgocdFile(proc[p].name))
       IN  /\ After(p, r, Return(p, "deleted"))
           /\ live' = IF r.err = "none" THEN live \ {proc[p].name} ELSE live
    /\ UNCHANGED <<plainOnly, overlapped, launched>>

---------------------------------------------------------------------------
(* list_tenants *)

\* the code of a token's first character: the order sorted() puts names in
CharCode(c) == CASE c = "." -> 46 [] c = "1" -> 49 [] c = "a" -> 97 [] c = "b" -> 98
                 [] c = "configmap.yaml" -> 99 [] c = "deployment.yaml" -> 100
                 [] c = "namespace.yaml" -> 110 [] c = "replicas: " -> 114
                 [] c = "service.yaml" -> 115

\* Python: a < b on strings
RECURSIVE TextLess(_, _)
TextLess(a, b) ==
    IF a = <<>> THEN b # <<>>
    ELSE IF b = <<>> THEN FALSE
    ELSE IF Head(a) = Head(b) THEN TextLess(Tail(a), Tail(b))
    ELSE CharCode(Head(a)) < CharCode(Head(b))

\* sorted(...)
RECURSIVE Sorted(_)
Sorted(S) ==
    IF S = {} THEN <<>>
    ELSE LET m == CHOOSE x \in S : \A y \in S \ {x} : TextLess(x, y)
         IN  <<m>> \o Sorted(S \ {m})

\* tenant_dir.name.startswith('.')
StartsWithDot(name) == name # <<>> /\ Head(name) = "."

\* lines 239-244: the tier guessed from the deployment text
DeriveTier(content) ==
    IF Contains(content, <<"replicas: ", "1">>) THEN "small"
    ELSE IF Contains(content, <<"replicas: ", "3">>) THEN "large"
    ELSE "standard"

\* the names list prints, in order: directories under gitops/tenants whose name has no leading "."
Listed(f) ==
    Sorted({e[Len(e)] : e \in {x \in Entries(f, TenantsRoot) :
                                    IsDir(f, x) /\ ~StartsWithDot(x[Len(x)])}})

\* what list prints for one tenant directory: its name and, when deployment.yaml exists, a tier
ReportLine(f, name) ==
    LET deployment_file == Child(TenantsRoot \o <<name>>, "deployment.yaml")
    IN  [name |-> name,
         tier |-> IF IsFile(f, deployment_file) THEN DeriveTier(f.files[deployment_file])
                  ELSE "none"]

ListTenants(p) ==
    /\ proc[p].pc = "list"
    /\ IF ~Exists(fs, TenantsRoot) THEN proc' = Return(p, "no_tenants")
       ELSE IF IsFile(fs, TenantsRoot) THEN proc' = Raise(p, "NotADirectoryError")
       ELSE LET order == Listed(fs)
                \* read_text() of a deployment.yaml that is a directory raises
                bad == {i \in 1..Len(order) :
                           IsDir(fs, Child(TenantsRoot \o <<order[i]>>, "deployment.yaml"))}
                stop == IF bad = {} THEN Len(order)
                        ELSE CHOOSE i \in bad : \A j \in bad : i <= j
                report == [i \in 1..stop |-> ReportLine(fs, order[i])]
            IN  proc' = [proc EXCEPT ![p].report = report,
                                     ![p].pc = IF bad = {} THEN "done" ELSE "failed",
                                     ![p].result = IF bad = {} THEN "listed" ELSE "IsADirectoryError"]
    /\ UNCHANGED <<fs, live, plainOnly, overlapped, launched>>

---------------------------------------------------------------------------
(* Specifications *)

Init ==
    /\ fs = EmptyFs
    /\ proc = [p \in Procs |-> Idle]
    /\ live = {}
    /\ plainOnly = TRUE
    /\ overlapped = FALSE
    /\ launched = 0

AllExited == \A p \in Procs : proc[p].pc = "idle"

\* the steps of a running process
Step(p) ==
    \/ MkdirTenant(p) \/ WriteNamespace(p) \/ WriteDeployment(p) \/ WriteService(p)
    \/ WriteConfigmap(p) \/ MkdirArgocd(p) \/ WriteApplication(p)
    \/ CheckExists(p) \/ Confirm(p) \/ ConfirmEOF(p) \/ RecheckDir(p) \/ RemoveTree(p)
    \/ CheckArgocd(p) \/ UnlinkArgocd(p)
    \/ ListTenants(p)
    \/ Exit(p)

\* the tool is run one invocation at a time
Invoke(p) == AllExited /\ Main(p, Names) /\ UNCHANGED launched

Next == \E p \in Procs : Invoke(p) \/ Step(p)

Spec == Init /\ [][Next]_vars

\* invocations on one tenant name, some of them started while another is still running
InvokeConc(p) ==
    /\ Quiescent \/ launched < MaxOverlaps
    /\ Main(p, ConcNames)
    /\ launched' = IF Quiescent THEN launched ELSE launched + 1

NextConc == \E p \in Procs : InvokeConc(p) \/ Step(p)

SpecConc == Init /\ [][NextConc]_vars

\* a tenant as create leaves it, its deployment text carrying the given profile
Provisioned(name, config) ==
    LET d  == TenantDir(name)
        f1 == MkdirParents(EmptyFs, d).fs
        f2 == WriteText(f1, Child(d, "namespace.yaml"), create_namespace_yaml(name)).fs
        f3 == WriteText(f2, Child(d, "deployment.yaml"), DeploymentText(name, config)).fs
        f4 == WriteText(f3, Child(d, "service.yaml"), create_service_yaml(name)).fs
        f5 == WriteText(f4, Child(d, "configmap.yaml"), create_configmap_yaml(name)).fs
        f6 == MkdirParents(f5, ArgocdDir).fs
    IN  WriteText(f6, ArgocdFile(name), create_argocd_application_yaml(name)).fs

\* the working tree holds one tenant whose deployment manifest carries some replica count k
\* (the count is a field people and tools edit: the application ignores differences in it)
InitTier ==
    /\ \E k \in 0..MaxReplicas :
          fs = Provisioned(PlainName, [TIERS.standard EXCEPT !.replicas = k])
    /\ proc = [p \in Procs |-> Idle]
    /\ live = {PlainName}
    /\ plainOnly = TRUE
    /\ overlapped = FALSE
    /\ launched = 0

InvokeTier(p) == AllExited /\ Main(p, TierSpecNames) /\ UNCHANGED launched

NextTier == \E p \in Procs : InvokeTier(p) \/ Step(p)

SpecTier == InitTier /\ [][NextTier]_vars

\* create_tenant(name, tier) called as a function, with no argument parser in front of it
CallCreateTenant(p) ==
    /\ AllExited
    /\ FirstFree(p)
    /\ \E n \in ApiNames, t \in TierArgs :
          proc' = [proc EXCEPT ![p] = [Started("create", "mkdir_tenant", n, t) EXCEPT !.command = "create_tenant"]]
    /\ plainOnly' = FALSE
    /\ UNCHANGED <<fs, live, overlapped, launched>>

InvokeApi(p) == AllExited /\ Main(p, ApiNames) /\ UNCHANGED launched

NextApi == \E p \in Procs : CallCreateTenant(p) \/ InvokeApi(p) \/ Step(p)

SpecApi == Init /\ [][NextApi]_vars

\* the tool is run one invocation at a time, on directory names that need no path handling
InvokeListing(p) == AllExited /\ Main(p, ListingNames) /\ UNCHANGED launched

NextListing == \E p \in Procs : InvokeListing(p) \/ Step(p)

SpecListing == Init /\ [][NextListing]_vars

---------------------------------------------------------------------------
(* Properties of create *)

\* the file named by a path string holds exactly this text
Holds(f, pathString, text) ==
    LET q == Path(pathString) IN IsFile(f, q) /\ f.files[q] = text

TenantFile(n, file) == <<"gitops", "/", "tenants", "/">> \o n \o <<"/", file>>
ApplicationFile(n) == <<"gitops", "/", "argocd", "/", "application-">> \o n \o <<".yaml">>

CreateDone(p) == proc[p].command = "create" /\ proc[p].pc = "done"

\* C1: once create(n, t) has completed, the four manifests under gitops/tenants/n and
\* gitops/argocd/application-n.yaml exist and each holds exactly the text rendered from n and
\* the profile of t (the deployment carrying t's replica count and resource values), whatever
\* the tree held before the call.
C1_CreateWritesRenderedManifests ==
    \A p \in Procs : CreateDone(p) =>
        LET n == proc[p].name
            config == TIERS[proc[p].tier]
            deployment == Path(TenantFile(n, "deployment.yaml"))
        IN  /\ Holds(fs, TenantFile(n, "namespace.yaml"), create_namespace_yaml(n))
            /\ Holds(fs, TenantFile(n, "deployment.yaml"), DeploymentText(n, config))
            /\ Holds(fs, TenantFile(n, "service.yaml"), create_service_yaml(n))
            /\ Holds(fs, TenantFile(n, "configmap.yaml"), create_configmap_yaml(n))
            /\ Holds(fs, ApplicationFile(n), create_argocd_application_yaml(n))
            /\ Contains(fs.files[deployment], <<SpecHead, "replicas: ">> \o Str(config.replicas) \o <<SelectorBlock>>)
            /\ \A field \in {config.memory_request, config.memory_limit,
                               config.cpu_request, config.cpu_limit} :
                   Contains(fs.files[deployment], <<field>>)

\* a create has completed over a tenant that was there with another tier
C1_Witness ==
    \E p \in Procs :
        /\ CreateDone(p)
        /\ \E t \in TierNames \ {proc[p].tier} :
               Holds(proc[p].pre, TenantFile(proc[p].name, "deployment.yaml"),
                     create_deployment_yaml(proc[p].name, t))

---------------------------------------------------------------------------
(* Properties of delete *)

\* "yes" in any mix of upper and lower case
SpellsYes(c) ==
    /\ Len(c) = 3
    /\ c[1] \in {"y", "Y"} /\ c[2] \in {"e", "E"} /\ c[3] \in {"s", "S"}

Answered(p) == proc[p].command = "delete" /\ proc[p].prompted

\* C2 as stated: delete goes on only when the answer is exactly "yes"; every other answer
\* cancels and leaves the tree as it was.
C2_OnlyExactYesProceeds ==
    \A p \in Procs : (Answered(p) /\ proc[p].confirm # Yes) =>
        /\ proc[p].pc = "done"
        /\ proc[p].result = "cancelled"
        /\ fs = proc[p].pre

\* C2 amended: the answer is compared without regard to letter case.  delete goes on exactly
\* when the answer spells "yes" in any case; every other answer cancels, and a cancelled
\* delete returns with the tree as it was.
C2_CaseInsensitiveYesProceeds ==
    \A p \in Procs : Answered(p) =>
        IF SpellsYes(proc[p].confirm)
        THEN proc[p].result # "cancelled" /\ proc[p].pc \in {"recheck_dir", "rmtree", "check_argocd", "unlink", "done"}
        ELSE /\ proc[p].pc = "done"
             /\ proc[p].result = "cancelled"
             /\ fs = proc[p].pre

Present(f, n) ==
    /\ IsDir(f, TenantDir(n))
    /\ \A m \in ManifestNames : IsFile(f, Child(TenantDir(n), m))
    /\ IsFile(f, ArgocdFile(n))

Absent(f, n) == ~Exists(f, TenantDir(n)) /\ ~Exists(f, ArgocdFile(n))

\* an answer that is not "yes" in any case has cancelled the delete of a present tenant
C2_Witness ==
    \E p \in Procs :
        /\ Answered(p)
        /\ proc[p].confirm = <<" ", "y", "e", "s">>
        /\ proc[p].result = "cancelled"
        /\ Present(fs, proc[p].name)

\* C3: a delete of a tenant whose directory exists, once confirmed, runs to its end without
\* an error, and then neither gitops/tenants/n, nor anything under it, nor
\* gitops/argocd/application-n.yaml is there; also when the application file was absent before.
C3_ConfirmedDeleteRemovesTenant ==
    \A p \in Procs :
        (Answered(p) /\ SpellsYes(proc[p].confirm) /\ IsDir(proc[p].pre, TenantDir(proc[p].name))
            /\ Finished(p)) =>
        /\ proc[p].pc = "done"
        /\ proc[p].result = "deleted"
        /\ \A q \in fs.dirs \cup DOMAIN fs.files : ~IsPrefix(TenantDir(proc[p].name), q)
        /\ ~Exists(fs, ArgocdFile(proc[p].name))

\* a confirmed delete has finished for a tenant directory that had no application file
C3_Witness ==
    \E p \in Procs :
        /\ Answered(p) /\ proc[p].result = "deleted"
        /\ IsDir(proc[p].pre, TenantDir(proc[p].name))
        /\ \E m \in ManifestNames : \E q \in DOMAIN proc[p].pre.files :
               IsPrefix(TenantDir(proc[p].name), q) /\ q[Len(q)] = <<m>>
        /\ ~Exists(proc[p].pre, ArgocdFile(proc[p].name))

---------------------------------------------------------------------------
(* Properties of list and of the tenant life cycle *)

ListDone(p) == proc[p].command = "list" /\ proc[p].pc = "done"

Reported(p) == {proc[p].report[i].name : i \in 1..Len(proc[p].report)}

\* C7 as stated: after any run of completed create and delete invocations, one at a time,
\* from an empty working directory, list reports exactly the names created and not removed
\* since by a confirmed delete, each once.
C7_ListReportsLiveTenants ==
    \A p \in Procs : ListDone(p) =>
        /\ Reported(p) = live
        /\ Cardinality(Reported(p)) = Len(proc[p].report)

\* C7 amended: the same, for runs in which every tenant name is a plain directory name (not
\* empty, no "/", no leading "."): list leaves out names that start with "." and does not
\* see tenants written outside a directory of their own.
C7_ListReportsLivePlainTenants ==
    \A p \in Procs : (ListDone(p) /\ plainOnly) =>
        /\ Reported(p) = live
        /\ Cardinality(Reported(p)) = Len(proc[p].report)

\* list has reported one of two created tenants after the other was deleted
C7_Witness ==
    \E p \in Procs :
        /\ ListDone(p) /\ plainOnly
        /\ Reported(p) = {OtherName}
        /\ IsFile(fs, ArgocdFile(OtherName)) /\ ~Exists(fs, ArgocdFile(PlainName))
        /\ live = {OtherName}

\* the manifests and the application file of a tenant name, by content
TenantFiles(f, n) ==
    [file \in ManifestNames \cup {"application"} |->
        LET q == IF file = "application" THEN ArgocdFile(n) ELSE Child(TenantDir(n), file)
        IN  IF IsFile(f, q) THEN f.files[q] ELSE <<"(no file)">>]

\* C10: a create or delete for name a, whatever its outcome, leaves the manifests and the
\* application file of every other name b as they were: none is created, overwritten or removed.
C10_TenantIsolation ==
    \A p \in Procs : (proc[p].command \in {"create", "delete"} /\ Finished(p)) =>
        \A b \in Names \ {proc[p].name} : TenantFiles(fs, b) = TenantFiles(proc[p].pre, b)

\* C9 as stated: whenever no invocation is in flight a tenant is Absent or Present, also
\* after a create and a confirmed delete of the same name ran interleaved.
C9_AbsentOrPresentWhenQuiescent ==
    Quiescent => \A n \in ConcNames : Absent(fs, n) \/ Present(fs, n)

\* C9 amended: whenever no invocation is in flight, and as long as no two invocations have
\* been in flight together, a plain tenant name is Absent or Present.
C9_AbsentOrPresentWhenRunOneAtATime ==
    (Quiescent /\ ~overlapped) => \A n \in ConcNames : Absent(fs, n) \/ Present(fs, n)

\* run one at a time, a tenant has been created and deleted again
C9_Witness ==
    /\ Quiescent /\ ~overlapped
    /\ Absent(fs, PlainName)
    /\ \E p \in Procs : proc[p].command = "delete" /\ proc[p].result = "deleted"
                          /\ Present(proc[p].pre, PlainName)

---------------------------------------------------------------------------
(* Properties of the tier: the lookup in create, the guess in list *)

InvalidTier(p) == proc[p].command \in {"create", "create_tenant"} /\ proc[p].tier \notin TierNames

\* C8 as stated: create looks the tier up first, so a create with a tier that is not in the
\* table ends with the invalid-tier error and the tree as it was before the call.
C8_InvalidTierChangesNothing ==
    \A p \in Procs : (InvalidTier(p) /\ Finished(p)) =>
        /\ proc[p].pc = "failed"
        /\ fs = proc[p].pre

\* C8 amended: the tier is looked up when the deployment manifest is rendered.  create_tenant
\* called with a tier that is not in the table fails with KeyError after it has made the tenant
\* directory and written namespace.yaml, and nothing else; the command line never gets there,
\* its parser turns the tier down and the tree stays as it was.
C8_InvalidTierFailsAfterNamespace ==
    \A p \in Procs : (InvalidTier(p) /\ Finished(p)) =>
        LET n == proc[p].name
            made == MkdirParents(proc[p].pre, Path(<<"gitops", "/", "tenants", "/">> \o n)).fs
        IN  /\ proc[p].pc = "failed"
            /\ proc[p].command = "create" =>
                   proc[p].result = "usage" /\ fs = proc[p].pre
            /\ proc[p].command = "create_tenant" =>
                   /\ proc[p].result = "KeyError"
                   /\ fs.dirs = made.dirs
                   /\ Holds(fs, TenantFile(n, "namespace.yaml"), create_namespace_yaml(n))
                   /\ \A q \in DOMAIN fs.files :
                          q # Path(TenantFile(n, "namespace.yaml")) =>
                              IsFile(proc[p].pre, q) /\ fs.files[q] = proc[p].pre.files[q]
                   /\ DOMAIN proc[p].pre.files \subseteq DOMAIN fs.files

\* create_tenant has failed on an unknown tier for a tenant that did not exist
C8_Witness ==
    \E p \in Procs :
        /\ proc[p].command = "create_tenant" /\ proc[p].result = "KeyError"
        /\ Absent(proc[p].pre, proc[p].name)
        /\ IsFile(fs, Child(TenantDir(proc[p].name), "namespace.yaml"))

\* the replica count written in a deployment text: what stands between "replicas: " under
\* "spec:" and the selector block
ReplicaField(text) ==
    LET i == CHOOSE j \in 1..(Len(text) - 1) : text[j] = SpecHead /\ text[j + 1] = "replicas: "
        k == CHOOSE m \in (i + 2)..Len(text) :
                 text[m] = SelectorBlock /\ \A l \in (i + 2)..(m - 1) : text[l] # SelectorBlock
    IN  SubSeq(text, i + 2, k - 1)

DeploymentOf(n) == Child(TenantDir(n), "deployment.yaml")

\* C5: a tenant created with tier small or large is reported by list with that tier, whatever
\* its name; a tenant created with tier standard is reported as standard when neither
\* "replicas: 1" nor "replicas: 3" occurs in its deployment manifest.
C5_TierRoundTrip ==
    \A p \in Procs : ListDone(p) =>
        \A n \in TierSpecNames, t \in TierNames :
            (/\ IsFile(fs, DeploymentOf(n))
             /\ fs.files[DeploymentOf(n)] = create_deployment_yaml(n, t)
             /\ t = "standard" => /\ ~Contains(fs.files[DeploymentOf(n)], <<"replicas: ", "1">>)
                                   /\ ~Contains(fs.files[DeploymentOf(n)], <<"replicas: ", "3">>))
            => \E i \in 1..Len(proc[p].report) : proc[p].report[i] = [name |-> n, tier |-> t]

\* C6: for every tenant directory list reports, the tier is small exactly when the replica
\* count of its deployment manifest is 1, large exactly when it is 3, and standard otherwise,
\* also when there is no deployment.yaml and when the count is another number.
C6_TierFollowsReplicaCount ==
    \A p \in Procs : ListDone(p) =>
        \A i \in 1..Len(proc[p].report) :
            LET line == proc[p].report[i]
                file == Child(TenantsRoot \o <<line.name>>, "deployment.yaml")
                count == IF IsFile(fs, file) THEN ReplicaField(fs.files[file]) ELSE <<>>
            IN  line.tier = IF count = <<"1">> THEN "small"
                            ELSE IF count = <<"3">> THEN "large"
                            ELSE "standard"

=============================================================================
